---- MODULE Spec2Model ----
(***************************************************************************)
(* Model of extract_binary.py: the ImageExtract extraction pipeline with   *)
(* its cleanup list, and the BinaryCopy installer.                         *)
(*                                                                         *)
(* Working directories are identified by the timestamp _mkdir() names them *)
(* with; the timestamp has microsecond resolution and every _mkdir() call  *)
(* is separated from the next by at least one system call, so successive   *)
(* calls are modelled as returning strictly increasing identifiers.        *)
(* File names are sequences of one-character strings, so that              *)
(* os.path.splitext is computed rather than assumed.                       *)
(***************************************************************************)
EXTENDS Integers, Sequences, FiniteSets, TLC

VARIABLES
    \* ---- ImageExtract ----
    pc,              \* position of the extractor: idle, a pending tool call, done, raised, deleted
    imagepath,       \* self.imagepath (file name, a sequence of characters)
    items_to_clean,  \* self.items_to_clean
    fs,              \* the working directories that exist on disk
    zeroImg,         \* the working directories that hold a file named 0.img
    payload,         \* the working directories a nested 0.img was extracted into
    clock,           \* the timestamp the next _mkdir() uses
    outdir,          \* run(): outdir
    run_newoutdir2,  \* run(): newoutdir2 (zip / 7z branch)
    image_file,      \* run(): image_file, the argument of extract_img_file
    img_isfile,      \* os.path.isfile(image_file)
    newoutdir,       \* extract_img_file(): newoutdir
    newoutdir2,      \* extract_img_file(): newoutdir2
    retval,          \* what run() returned (None: nothing)
    error,           \* the exception that left run()
    created,         \* every directory _mkdir() has made
    runCreated,      \* the directories _mkdir() has made in the current run()
    runs,            \* number of run() calls so far
    cleanupCalls,    \* consecutive client calls of do_cleanup() / __del__
    cleanupErr,      \* a do_cleanup() call raised
    fsBefore,        \* fs before the first of the consecutive cleanup calls
    fsAfterFirst,    \* fs after the first of the consecutive cleanup calls
    \* ---- BinaryCopy ----
    bc_pc,           \* start, constructed, ctor_raised, returned
    module_type, theme_name, current_ext_path, copy, replace,
    output_dir, target,
    tree,            \* the directories on disk: path -> identity of its content
    tree0,           \* tree when run() was called
    tools,           \* the external commands and removals run() performed, in order
    opRc,            \* {exit code of mv / cp}, or NoRc: not invoked
    chmodRc,         \* {exit code of chmod}, or NoRc: not invoked
    printed,         \* the success message was printed
    bc_raised        \* an exception left run()

evars == <<pc, imagepath, items_to_clean, fs, zeroImg, payload, clock, outdir, run_newoutdir2,
           image_file, img_isfile, newoutdir, newoutdir2, retval, error, created,
           runCreated, runs, cleanupCalls, cleanupErr, fsBefore, fsAfterFirst>>
bvars == <<bc_pc, module_type, theme_name, current_ext_path, copy, replace,
           output_dir, target, tree, tree0, tools, opRc, chmodRc, printed, bc_raised>>
vars == <<evars, bvars>>

\* ------------------------------------------------------------------ bounds
MaxRuns == 2
MaxCleanupCalls == 2
MaxDirs == 3
MaxLen == 3

\* ------------------------------------------------------------------ helpers
None == 0
Range(s) == {s[i] : i \in 1..Len(s)}

RECURSIVE SeqsUpTo(_, _)
SeqsUpTo(S, n) ==
    IF n = 0 THEN {<<>>}
    ELSE LET shorter == SeqsUpTo(S, n - 1)
         IN  shorter \cup {Append(s, x) : s \in {t \in shorter : Len(t) = n - 1}, x \in S}

\* ------------------------------------------------------------------ paths
DotImg == <<".", "i", "m", "g">>
DotTgz == <<".", "t", "g", "z">>
DotZip == <<".", "z", "i", "p">>
Dot7z  == <<".", "7", "z">>

\* index of the last occurrence of c in s, 0 when there is none (str.rfind)
RFind(s, c) ==
    LET hits == {i \in 1..Len(s) : s[i] = c}
    IN  IF hits = {} THEN 0 ELSE CHOOSE i \in hits : \A j \in hits : j <= i

\* os.path.splitext(p)[1] for the part of p after the directory it is joined to
splitext(s) ==
    LET sep == RFind(s, "/")
        dot == RFind(s, ".")
    IN  IF dot > sep /\ (\E k \in (sep + 1)..(dot - 1) : s[k] # ".")
        THEN SubSeq(s, dot, Len(s))
        ELSE <<>>

\* os.path.join(dir, name): a path is the directory it lies in and the rest
join(d, name) == [base |-> d, rel |-> name]
EmptyPath == [base |-> None, rel |-> <<>>]

InputNames == { <<"x">> \o DotTgz, <<"x">> \o DotZip, <<"x">> \o Dot7z,
                <<"x">> \o DotImg, <<"x", ".", "b">> }

\* what tar's or ls's stdout splits into: no token, or a first token
Listings == { <<>>,
              << <<"a">> \o DotImg >>,
              << <<"a", ".", "t">> >>,
              << DotImg >>,
              << <<"d">> \o DotImg \o <<"/">> >> }

\* ------------------------------------------------------------------ ImageExtract
isdir(f, item) == item \in f

\* shutil.rmtree: removes the directory; raises when it does not exist
rmtree(f, item) == [fs |-> f \ {item}, err |-> item \notin f]

CleanupGuardAlways(f, item) == TRUE
CleanupGuard(f, item) == isdir(f, item)

RECURSIVE CleanupFrom(_, _, _)
CleanupFrom(items, i, st) ==
    IF i > Len(items) \/ st.err THEN st
    ELSE CleanupFrom(items, i + 1,
                     IF CleanupGuard(st.fs, items[i]) THEN rmtree(st.fs, items[i]) ELSE st)

do_cleanup(items, f) == CleanupFrom(items, 1, [fs |-> f, err |-> FALSE])

\* _mkdir(): a new directory named after the current timestamp
Mkdir(f, clk) == [dir |-> clk, fs |-> f \cup {clk}, clock |-> clk + 1]

\* the directories the cleanup list holds after run() / extract_img_file()
\* has registered d
Register(items, d) == Append(items, d)

\* check_report_error with a non-zero returncode: cleanup, then RuntimeError
CheckReportErrorNoCleanup ==
    /\ fs' = fs
    /\ error' = "RuntimeError"
    /\ pc' = "raised"

CheckReportErrorFails ==
    LET r == do_cleanup(items_to_clean, fs)
    IN  /\ fs' = r.fs
        /\ error' = IF r.err THEN "FileNotFoundError" ELSE "RuntimeError"
        /\ pc' = "raised"

\* extract_img_file(img) up to its first tool call, entered with the cleanup
\* list, disk, clock and sets of created directories as the caller left them
extract_img_file(img, isf, items, f, clk, crAll, crRun) ==
    /\ image_file' = img
    /\ img_isfile' = isf
    /\ IF splitext(img.rel) # DotImg
       THEN LET r == do_cleanup(items, f)
            IN  /\ fs' = r.fs
                /\ error' = IF r.err THEN "FileNotFoundError" ELSE "ValueError"
                /\ pc' = "raised"
                /\ items_to_clean' = items
                /\ clock' = clk
                /\ created' = crAll
                /\ runCreated' = crRun
                /\ newoutdir' = None
       ELSE IF isf
       THEN LET m == Mkdir(f, clk)
            IN  /\ fs' = m.fs
                /\ clock' = m.clock
                /\ newoutdir' = m.dir
                /\ items_to_clean' = Register(items, m.dir)
                /\ created' = crAll \cup {m.dir}
                /\ runCreated' = crRun \cup {m.dir}
                /\ pc' = "7z_img"
                /\ error' = "none"
       ELSE /\ fs' = f
            /\ clock' = clk
            /\ items_to_clean' = items
            /\ created' = crAll
            /\ runCreated' = crRun
            /\ pc' = "done"
            /\ error' = "none"
            /\ newoutdir' = None

\* the cleanup list after extract_img_file() has made the directory that
\* receives the nested 0.img: the directory is not appended
RegisterNestedAppend(items, d) == Append(items, d)
RegisterNested(items, d) == items

\* the value extract_img_file() returns after the nested extraction
ExtractResultFirst(nd, nd2) == nd
ExtractResult(nd, nd2) == nd2

cleanupGhostsReset ==
    /\ cleanupCalls' = 0
    /\ cleanupErr' = FALSE
    /\ fsBefore' = {}
    /\ fsAfterFirst' = {}

\* run() from its call to its first tool call (or to its end)
ImageExtract_run ==
    /\ pc \in {"idle", "done", "raised"}
    /\ runs < MaxRuns
    /\ runs' = runs + 1
    /\ retval' = None
    /\ newoutdir2' = None
    /\ cleanupGhostsReset
    /\ UNCHANGED <<imagepath, zeroImg, payload, bvars>>
    /\ LET file_extension == splitext(imagepath)
           m == Mkdir(fs, clock)
           items1 == Register(items_to_clean, m.dir)
       IN  /\ outdir' = m.dir
           /\ IF file_extension = DotTgz
              THEN /\ pc' = "tar"
                   /\ fs' = m.fs
                   /\ clock' = m.clock
                   /\ items_to_clean' = items1
                   /\ created' = created \cup {m.dir}
                   /\ runCreated' = {m.dir}
                   /\ run_newoutdir2' = None
                   /\ newoutdir' = None
                   /\ image_file' = EmptyPath
                   /\ img_isfile' = FALSE
                   /\ error' = "none"
              ELSE IF file_extension = DotZip \/ file_extension = Dot7z
              THEN LET m2 == Mkdir(m.fs, m.clock)
                   IN  /\ pc' = "7z_x"
                       /\ fs' = m2.fs
                       /\ clock' = m2.clock
                       /\ run_newoutdir2' = m2.dir
                       /\ items_to_clean' = Register(items1, m2.dir)
                       /\ created' = created \cup {m.dir, m2.dir}
                       /\ runCreated' = {m.dir, m2.dir}
                       /\ newoutdir' = None
                       /\ image_file' = EmptyPath
                       /\ img_isfile' = FALSE
                       /\ error' = "none"
              ELSE IF file_extension = DotImg
              THEN /\ run_newoutdir2' = None
                   /\ \E isf \in BOOLEAN :
                        extract_img_file(join(None, imagepath), isf, items1, m.fs, m.clock,
                                         created \cup {m.dir}, {m.dir})
              ELSE /\ run_newoutdir2' = None
                   /\ extract_img_file(EmptyPath, FALSE, items1, m.fs, m.clock,
                                       created \cup {m.dir}, {m.dir})

\* a tool returned non-zero inside run() / extract_img_file()
ToolFails ==
    /\ CheckReportErrorFails
    /\ UNCHANGED <<imagepath, items_to_clean, zeroImg, payload, clock, outdir, run_newoutdir2,
                   image_file, img_isfile, newoutdir, newoutdir2, retval, created,
                   runCreated, runs, cleanupCalls, cleanupErr, fsBefore, fsAfterFirst,
                   bvars>>

\* the first token of a tool's listing becomes the disk-image path
\* (result.stdout.decode().split()[0]); no token at all is an IndexError
FirstEntry(dir, stdout) ==
    IF stdout = <<>>
    THEN /\ pc' = "raised"
         /\ error' = "IndexError"
         /\ UNCHANGED <<items_to_clean, fs, clock, image_file, img_isfile, newoutdir,
                        created, runCreated>>
    ELSE \E isf \in BOOLEAN :
            extract_img_file(join(dir, stdout[1]), isf, items_to_clean, fs, clock,
                             created, runCreated)

\* tar xzvf filepath -C outdir
TarReturns ==
    /\ pc = "tar"
    /\ \/ ToolFails
       \/ /\ \E stdout \in Listings : FirstEntry(outdir, stdout)
          /\ UNCHANGED <<imagepath, zeroImg, payload, outdir, run_newoutdir2, newoutdir2, retval,
                         runs, cleanupCalls, cleanupErr, fsBefore, fsAfterFirst, bvars>>

\* 7z x filepath -o newoutdir2 (zip / 7z container)
SevenZipContainerReturns ==
    /\ pc = "7z_x"
    /\ \/ ToolFails
       \/ /\ pc' = "ls"
          /\ UNCHANGED <<imagepath, items_to_clean, fs, zeroImg, payload, clock, outdir,
                         run_newoutdir2, image_file, img_isfile, newoutdir, newoutdir2,
                         retval, error, created, runCreated, runs, cleanupCalls,
                         cleanupErr, fsBefore, fsAfterFirst, bvars>>

\* ls newoutdir2
LsReturns ==
    /\ pc = "ls"
    /\ \/ ToolFails
       \/ /\ \E stdout \in Listings : FirstEntry(run_newoutdir2, stdout)
          /\ UNCHANGED <<imagepath, zeroImg, payload, outdir, run_newoutdir2, newoutdir2, retval,
                         runs, cleanupCalls, cleanupErr, fsBefore, fsAfterFirst, bvars>>

\* 7z x image_file -o newoutdir, then the test for a nested 0.img
SevenZipImageReturns ==
    /\ pc = "7z_img"
    /\ \/ ToolFails
       \/ /\ \E zero \in BOOLEAN :
               IF zero
               THEN LET m == Mkdir(fs, clock)
                    IN  /\ zeroImg' = zeroImg \cup {newoutdir}
                        /\ fs' = m.fs
                        /\ clock' = m.clock
                        /\ newoutdir2' = m.dir
                        /\ items_to_clean' = RegisterNested(items_to_clean, m.dir)
                        /\ created' = created \cup {m.dir}
                        /\ runCreated' = runCreated \cup {m.dir}
                        /\ pc' = "7z_zero"
               ELSE /\ pc' = "done"
                    /\ UNCHANGED <<zeroImg, fs, clock, newoutdir2, items_to_clean,
                                   created, runCreated>>
          /\ UNCHANGED <<imagepath, payload, outdir, run_newoutdir2, image_file, img_isfile,
                         newoutdir, retval, error, runs, cleanupCalls, cleanupErr,
                         fsBefore, fsAfterFirst, bvars>>

\* 7z x zero_img -o newoutdir2, then return newoutdir2
SevenZipZeroReturns ==
    /\ pc = "7z_zero"
    /\ \/ ToolFails
       \/ /\ pc' = "done"
          /\ payload' = payload \cup {newoutdir2}
          /\ retval' = ExtractResult(newoutdir, newoutdir2)
          /\ UNCHANGED <<imagepath, items_to_clean, fs, zeroImg, clock, outdir,
                         run_newoutdir2, image_file, img_isfile, newoutdir, newoutdir2,
                         error, created, runCreated, runs, cleanupCalls, cleanupErr,
                         fsBefore, fsAfterFirst, bvars>>

\* the effect of one client call of do_cleanup() on the disk and the ghosts
CleanupCall ==
    LET r == do_cleanup(items_to_clean, fs)
    IN  /\ fs' = r.fs
        /\ cleanupErr' = (cleanupErr \/ r.err)
        /\ cleanupCalls' = cleanupCalls + 1
        /\ fsBefore' = IF cleanupCalls = 0 THEN fs ELSE fsBefore
        /\ fsAfterFirst' = IF cleanupCalls = 0 THEN r.fs ELSE fsAfterFirst

\* do_cleanup() called by the client between runs
ImageExtract_do_cleanup ==
    /\ pc \in {"idle", "done", "raised"}
    /\ cleanupCalls < MaxCleanupCalls
    /\ CleanupCall
    /\ UNCHANGED <<pc, imagepath, items_to_clean, zeroImg, payload, clock, outdir, run_newoutdir2,
                   image_file, img_isfile, newoutdir, newoutdir2, retval, error, created,
                   runCreated, runs, bvars>>

\* __del__: the extractor's lifetime ends
ImageExtract_del ==
    /\ pc \in {"idle", "done", "raised"}
    /\ cleanupCalls < MaxCleanupCalls
    /\ CleanupCall
    /\ pc' = "deleted"
    /\ UNCHANGED <<imagepath, items_to_clean, zeroImg, payload, clock, outdir, run_newoutdir2,
                   image_file, img_isfile, newoutdir, newoutdir2, retval, error, created,
                   runCreated, runs, bvars>>

\* ------------------------------------------------------------------ BinaryCopy
\* A directory path is the sequence of its segments below "/"; tree maps
\* every directory on disk to the identity of its content (the path it had
\* at the start, or a tag for what made it).
NoRc == {}
MGS_DIR == <<"games">>
GAMES_DIR == <<"games", "games">>
CURRENT_DIR == <<"work">>

ModuleTypes == {"GAME", "MULTI_GAME_UI", "THEME", "None"}
ThemeNames == {"mygame", "games"}

\* the directories the model's disk may hold at the start
Universe == { MGS_DIR, GAMES_DIR,
              <<"games", "games", "mygame">>, <<"games", "games", "mygame", "data">>,
              <<"games", "mygame">>,
              CURRENT_DIR, <<"work", "mygame">>, <<"work", "games">>, <<"work", "out">> }

\* where the extracted-and-renamed directory may lie
SourcePaths == { <<"work", "mygame">>, <<"work", "games">>, <<"work", "out">>,
                 <<"games", "games", "mygame">>, <<"games", "mygame">> }

IsPrefix(p, q) == Len(p) <= Len(q) /\ SubSeq(q, 1, Len(p)) = p
Prefixes(p) == {SubSeq(p, 1, n) : n \in 1..Len(p)}
PrefixClosed(S) == \A p \in S : Prefixes(p) \subseteq S
Under(t, p) == {q \in DOMAIN t : IsPrefix(p, q)}
Subtree(t, p) == [q \in Under(t, p) |-> t[q]]

IsDir(t, p) == p \in DOMAIN t
basename(p) == p[Len(p)]
\* os.path.join(dir, name) for a name of one segment
path_join(dir, name) == Append(dir, name)

\* Path(p).mkdir(parents=True, exist_ok=True)
MkdirParents(t, p) ==
    [q \in DOMAIN t \cup Prefixes(p) |-> IF q \in DOMAIN t THEN t[q] ELSE <<"mkdir">>]

\* shutil.rmtree(p) of an existing directory: p and all below it
RmTree(t, p) == [q \in DOMAIN t \ Under(t, p) |-> t[q]]

\* where the directory src lands below dstdir, and the tree it brings along
Landing(src, dstdir) == path_join(dstdir, basename(src))
Rebase(src, dest, q) == dest \o SubSeq(q, Len(src) + 1, Len(q))
Brought(t, src, dest) == {Rebase(src, dest, q) : q \in Under(t, src)}
Origin(t, src, dest, r) == CHOOSE q \in Under(t, src) : Rebase(src, dest, q) = r

\* mv / cp -rp of src into dstdir can succeed: both exist, and src is
\* neither where it would land nor above it
TransferPossible(t, src, dstdir) ==
    /\ IsDir(t, src)
    /\ IsDir(t, dstdir)
    /\ Landing(src, dstdir) # src
    /\ ~IsPrefix(src, dstdir)

\* mv src dstdir, exit code 0; an existing landing directory can only be an
\* empty one, which the move replaces
MvPossible(t, src, dstdir) ==
    /\ TransferPossible(t, src, dstdir)
    /\ Under(t, Landing(src, dstdir)) \subseteq {Landing(src, dstdir)}
Mv(t, src, dstdir) ==
    LET dest == Landing(src, dstdir)
        kept == (DOMAIN t \ Under(t, src)) \ Under(t, dest)
    IN  [q \in kept \cup Brought(t, src, dest) |->
            IF q \in Brought(t, src, dest) THEN t[Origin(t, src, dest, q)] ELSE t[q]]

\* cp -rp src dstdir, exit code 0: the copy merges into the landing directory
Cp(t, src, dstdir) ==
    LET dest == Landing(src, dstdir)
    IN  [q \in DOMAIN t \cup Brought(t, src, dest) |->
            IF q \in Brought(t, src, dest) THEN t[Origin(t, src, dest, q)] ELSE t[q]]

\* mv or cp with a non-zero exit code: nothing happened, or the landing
\* directory was begun and left incomplete; the source is left as it was
Failed(t, src, dstdir) ==
    {t} \cup ( IF TransferPossible(t, src, dstdir) /\ ~IsDir(t, Landing(src, dstdir))
               THEN {[q \in DOMAIN t \cup {Landing(src, dstdir)} |->
                        IF q \in DOMAIN t THEN t[q] ELSE <<"partial">>]}
               ELSE {} )

\* __init__: the destination root of a module type (<<>>: unsupported)
OutputDirSwapped(mt) ==
    IF mt = "MULTI_GAME_UI" THEN GAMES_DIR
    ELSE IF mt = "GAME" THEN MGS_DIR
    ELSE <<>>
OutputDir(mt) ==
    IF mt = "MULTI_GAME_UI" THEN MGS_DIR
    ELSE IF mt = "GAME" THEN GAMES_DIR
    ELSE <<>>

\* _run, copy branch: the guard that refuses to overwrite
CopyRefusedNever(t, tgt) == FALSE
CopyRefused(t, tgt) == IsDir(t, tgt)

\* do_copy(result): whether chmod is run, and what is returned, from the exit
\* codes of the move or copy and of chmod
do_copy_unchecked_chmod(rc, rcChmod) ==
    IF rc # 0 THEN [ret |-> FALSE, chmod |-> FALSE, raised |-> FALSE]
    ELSE [ret |-> TRUE, chmod |-> TRUE, raised |-> FALSE]
do_copy(rc, rcChmod) ==
    IF rc # 0 THEN [ret |-> FALSE, chmod |-> FALSE, raised |-> FALSE]
    ELSE IF rcChmod # 0 THEN [ret |-> FALSE, chmod |-> TRUE, raised |-> FALSE]
    ELSE [ret |-> TRUE, chmod |-> TRUE, raised |-> FALSE]

BcIdle ==
    /\ bc_pc = "start"
    /\ module_type = "None" /\ theme_name = "" /\ current_ext_path = <<>>
    /\ copy = FALSE /\ replace = FALSE
    /\ output_dir = <<>> /\ target = <<>>
    /\ tree = <<>> /\ tree0 = <<>> /\ tools = <<>>
    /\ opRc = NoRc /\ chmodRc = NoRc
    /\ printed = FALSE /\ bc_raised = FALSE

\* BinaryCopy(module_type, theme_name, current_ext_path, copy, replace)
BinaryCopy_init ==
    /\ bc_pc = "start"
    /\ \E mt \in ModuleTypes, tn \in ThemeNames, src \in SourcePaths,
          c \in BOOLEAN, r \in BOOLEAN :
        /\ IsDir(tree, src)
        /\ module_type' = mt
        /\ theme_name' = tn
        /\ current_ext_path' = src
        /\ copy' = c
        /\ replace' = r
        /\ output_dir' = OutputDir(mt)
        /\ IF OutputDir(mt) = <<>>
           THEN /\ bc_pc' = "ctor_raised"
                /\ target' = <<>>
           ELSE /\ bc_pc' = "constructed"
                /\ target' = path_join(OutputDir(mt), tn)
    /\ UNCHANGED <<tree, tree0, tools, opRc, chmodRc, printed, bc_raised, evars>>

\* the end of run(): do_copy on the exit code, chmod's exit code drawn here
Finish(t, log, rc) ==
    \E rc2 \in {0, 1} :
        LET d == do_copy(rc, rc2)
        IN  /\ tree' = t
            /\ opRc' = {rc}
            /\ chmodRc' = IF d.chmod THEN {rc2} ELSE NoRc
            /\ tools' = IF d.chmod THEN Append(log, "chmod") ELSE log
            /\ printed' = (~d.raised /\ d.ret)
            /\ bc_raised' = d.raised

\* run(): _run() and the success message
BinaryCopy_run ==
    /\ bc_pc = "constructed"
    /\ bc_pc' = "returned"
    /\ tree0' = tree
    /\ UNCHANGED <<module_type, theme_name, current_ext_path, copy, replace,
                   output_dir, target, evars>>
    /\ LET made == ~IsDir(tree, GAMES_DIR)
           t1 == IF made THEN MkdirParents(tree, GAMES_DIR) ELSE tree
           log1 == IF made THEN <<"mkdir">> ELSE <<>>
       IN  IF replace
           THEN LET gone == IsDir(t1, target)
                    t2 == IF gone THEN RmTree(t1, target) ELSE t1
                    log2 == Append(IF gone THEN Append(log1, "rmtree") ELSE log1, "mv")
                IN  \/ /\ MvPossible(t2, current_ext_path, output_dir)
                       /\ Finish(Mv(t2, current_ext_path, output_dir), log2, 0)
                    \/ \E t3 \in Failed(t2, current_ext_path, output_dir) :
                          Finish(t3, log2, 1)
           ELSE IF copy
           THEN IF CopyRefused(t1, target)
                THEN /\ tree' = t1
                     /\ tools' = log1
                     /\ UNCHANGED <<opRc, chmodRc, printed, bc_raised>>
                ELSE LET log2 == Append(log1, "cp")
                     IN  \/ /\ TransferPossible(t1, current_ext_path, output_dir)
                            /\ Finish(Cp(t1, current_ext_path, output_dir), log2, 0)
                         \/ \E t3 \in Failed(t1, current_ext_path, output_dir) :
                               Finish(t3, log2, 1)
           ELSE /\ tree' = t1
                /\ tools' = log1
                /\ UNCHANGED <<opRc, chmodRc, printed, bc_raised>>

\* ------------------------------------------------------------------ specifications
\* ImageExtract after construction: the input file exists, nothing is tracked
InitExtract ==
    /\ pc = "idle"
    /\ imagepath \in InputNames
    /\ items_to_clean = <<>>
    /\ fs = {}
    /\ zeroImg = {}
    /\ payload = {}
    /\ clock = 1
    /\ outdir = None /\ run_newoutdir2 = None /\ newoutdir = None /\ newoutdir2 = None
    /\ image_file = EmptyPath
    /\ img_isfile = FALSE
    /\ retval = None
    /\ error = "none"
    /\ created = {} /\ runCreated = {}
    /\ runs = 0
    /\ cleanupCalls = 0 /\ cleanupErr = FALSE /\ fsBefore = {} /\ fsAfterFirst = {}
    /\ BcIdle

NextExtract ==
    \/ ImageExtract_run
    \/ TarReturns
    \/ SevenZipContainerReturns
    \/ LsReturns
    \/ SevenZipImageReturns
    \/ SevenZipZeroReturns
    \/ ImageExtract_do_cleanup
    \/ ImageExtract_del

SpecExtract == InitExtract /\ [][NextExtract]_vars

\* an extractor with an arbitrary cleanup list, any of whose directories may
\* already be gone, and directories of others on disk
InitCleanup ==
    /\ pc = "done"
    /\ imagepath \in {<<"x">> \o DotImg}
    /\ items_to_clean \in SeqsUpTo(1..MaxDirs, MaxLen)
    /\ fs \in SUBSET (1..(MaxDirs + 1))
    /\ zeroImg = {}
    /\ payload = {}
    /\ clock = MaxDirs + 2
    /\ outdir = None /\ run_newoutdir2 = None /\ newoutdir = None /\ newoutdir2 = None
    /\ image_file = EmptyPath
    /\ img_isfile = FALSE
    /\ retval = None
    /\ error = "none"
    /\ created = {} /\ runCreated = {}
    /\ runs = MaxRuns
    /\ cleanupCalls = 0 /\ cleanupErr = FALSE /\ fsBefore = {} /\ fsAfterFirst = {}
    /\ BcIdle

NextCleanup ==
    \/ ImageExtract_do_cleanup
    \/ ImageExtract_del

SpecCleanup == InitCleanup /\ [][NextCleanup]_vars

\* the installer before construction: some directories exist, each holding
\* its own content; the extractor plays no part
ExtractIdle ==
    /\ pc = "deleted"
    /\ imagepath = <<"x">> \o DotImg
    /\ items_to_clean = <<>>
    /\ fs = {}
    /\ zeroImg = {}
    /\ payload = {}
    /\ clock = 1
    /\ outdir = None /\ run_newoutdir2 = None /\ newoutdir = None /\ newoutdir2 = None
    /\ image_file = EmptyPath
    /\ img_isfile = FALSE
    /\ retval = None
    /\ error = "none"
    /\ created = {} /\ runCreated = {}
    /\ runs = 0
    /\ cleanupCalls = 0 /\ cleanupErr = FALSE /\ fsBefore = {} /\ fsAfterFirst = {}

InitCopy ==
    /\ ExtractIdle
    /\ bc_pc = "start"
    /\ module_type = "None" /\ theme_name = "" /\ current_ext_path = <<>>
    /\ copy = FALSE /\ replace = FALSE
    /\ output_dir = <<>> /\ target = <<>>
    /\ \E S \in SUBSET Universe :
          /\ PrefixClosed(S)
          /\ tree = [q \in S |-> q]
    /\ tree0 = tree
    /\ tools = <<>>
    /\ opRc = NoRc /\ chmodRc = NoRc
    /\ printed = FALSE /\ bc_raised = FALSE

NextCopy ==
    \/ BinaryCopy_init
    \/ BinaryCopy_run

SpecCopy == InitCopy /\ [][NextCopy]_vars

\* ------------------------------------------------------------------ claims: ImageExtract
\* the extractor is about to start tar, 7z or ls
ToolPcs == {"tar", "7z_x", "ls", "7z_img", "7z_zero"}
Tracked == Range(items_to_clean)
FourExtensions == {DotTgz, DotZip, Dot7z, DotImg}

\* C1: whenever an external tool (tar, 7z, ls) is about to be started, every
\* directory the extractor has created with _mkdir() is in items_to_clean,
\* the directory made for the nested 0.img extraction included.
C1_CreatedTrackedBeforeTool ==
    pc \in ToolPcs => created \subseteq Tracked

\* C2: when run() ends with a RuntimeError (a tool returned non-zero) or a
\* ValueError (the path handed to extract_img_file does not end in .img), no
\* directory listed in items_to_clean exists on disk and run() returned nothing.
C2_CleanupBeforeError ==
    (pc = "raised" /\ error \in {"RuntimeError", "ValueError"})
        => /\ \A i \in 1..Len(items_to_clean) : ~isdir(fs, items_to_clean[i])
           /\ retval = None

\* the nested 7z failed: three directories were made, the tracked ones are gone
C2_Witness ==
    /\ pc = "raised"
    /\ error = "RuntimeError"
    /\ newoutdir2 # None
    /\ Len(items_to_clean) >= 2
    /\ cleanupCalls = 0

\* C3: do_cleanup() called once or twice in a row, on any cleanup list and
\* with any of its directories already removed, raises nothing, leaves no
\* tracked directory on disk, changes nothing else, and the second call
\* leaves the disk as the first left it.
C3_CleanupIdempotent ==
    cleanupCalls >= 1
        => /\ ~cleanupErr
           /\ fs = fsBefore \ Tracked
           /\ cleanupCalls >= 2 => fs = fsAfterFirst

\* two calls on a list of which one directory was already gone, one was
\* still there, and a directory of someone else stays
C3_Witness ==
    /\ cleanupCalls = 2
    /\ \E d \in Tracked : d \notin fsBefore
    /\ \E d \in Tracked : d \in fsBefore
    /\ fs # {}

C10_ResultNotTracked ==
    (pc \in {"done", "deleted"} /\ retval # None)
        => /\ retval \notin Tracked
           /\ (runCreated \ {retval}) \subseteq Tracked
           /\ cleanupCalls >= 1 => /\ isdir(fs, retval)
                                   /\ \A d \in runCreated \ {retval} : ~isdir(fs, d)

\* the extractor was torn down after a run that went through a container
C10_Witness ==
    /\ pc = "deleted"
    /\ retval # None
    /\ Cardinality(runCreated) = 4
    /\ cleanupCalls >= 1

\* ------------------------------------------------------------------ claims: BinaryCopy
Invoked(name) == \E i \in 1..Len(tools) : tools[i] = name

\* C4: module type GAME gives the destination root /games/games/,
\* MULTI_GAME_UI gives /games/, any other value (an absent one included)
\* raises before any filesystem operation; in the accepted cases the target
\* is the destination root joined with the theme name.
C4_DestinationRoot ==
    bc_pc # "start"
        => /\ module_type = "GAME"
                => /\ bc_pc # "ctor_raised"
                   /\ output_dir = <<"games", "games">>
                   /\ target = <<"games", "games", theme_name>>
           /\ module_type = "MULTI_GAME_UI"
                => /\ bc_pc # "ctor_raised"
                   /\ output_dir = <<"games">>
                   /\ target = <<"games", theme_name>>
           /\ module_type \notin {"GAME", "MULTI_GAME_UI"}
                => /\ bc_pc = "ctor_raised"
                   /\ tree = tree0
                   /\ tools = <<>>

\* a GAME installer was constructed
C4_Witness ==
    /\ bc_pc = "constructed"
    /\ module_type = "GAME"
    /\ theme_name = "mygame"

\* C5: run() with copy set, replace not set and a directory already at the
\* target leaves the target and all below it unchanged, leaves the source
\* unchanged, invokes no cp, mv or chmod, prints no success message and
\* raises nothing.
C5_CopyKeepsExistingTarget ==
    (bc_pc = "returned" /\ copy /\ ~replace /\ IsDir(tree0, target))
        => /\ Subtree(tree, target) = Subtree(tree0, target)
           /\ Subtree(tree, current_ext_path) = Subtree(tree0, current_ext_path)
           /\ ~Invoked("cp") /\ ~Invoked("mv") /\ ~Invoked("chmod") /\ ~Invoked("rmtree")
           /\ opRc = NoRc /\ chmodRc = NoRc
           /\ ~printed
           /\ ~bc_raised

\* copy was asked for a game already installed with a directory below it,
\* from a source elsewhere
C5_Witness ==
    /\ bc_pc = "returned"
    /\ copy /\ ~replace
    /\ target = <<"games", "games", "mygame">>
    /\ current_ext_path = <<"work", "mygame">>
    /\ IsDir(tree0, <<"games", "games", "mygame", "data">>)

\* C6: run() with replace set and a directory already at the target ends
\* with the target holding the content of the extracted directory, for every
\* outcome of mv and every location of the extracted directory.
C6_ReplaceInstallsNew ==
    (bc_pc = "returned" /\ replace /\ IsDir(tree0, target))
        => /\ IsDir(tree, target)
           /\ tree[target] = tree0[current_ext_path]

\* C7: run() raises nothing on a non-zero exit of mv, cp or chmod; it prints
\* the success message exactly when the move or copy and the chmod after it
\* both returned 0; chmod comes only after a successful move or copy; with
\* neither copy nor replace set nothing is moved, copied, removed or
\* chmod-ed and nothing is printed.
C7_SoftFailureReporting ==
    bc_pc = "returned"
        => /\ ~bc_raised
           /\ printed <=> (opRc = {0} /\ chmodRc = {0})
           /\ Invoked("chmod") <=> chmodRc # NoRc
           /\ Invoked("chmod")
                => /\ opRc = {0}
                   /\ tools[Len(tools)] = "chmod"
                   /\ Len(tools) >= 2
                   /\ tools[Len(tools) - 1] \in {"mv", "cp"}
           /\ (~copy /\ ~replace)
                => /\ \A i \in 1..Len(tools) : tools[i] = "mkdir"
                   /\ opRc = NoRc
                   /\ ~printed

\* the copy succeeded and the chmod after it failed: nothing is printed
C7_Witness ==
    /\ bc_pc = "returned"
    /\ copy /\ ~replace
    /\ opRc = {0}
    /\ chmodRc = {1}
    /\ ~printed

\* C9: after a soft install failure (run() asked to copy or replace and
\* ending without success: cp, mv or chmod returned non-zero, or the target
\* exists under copy) nothing was raised and the directory passed as
\* current_ext_path still exists on disk with its content. The claim places
\* it at current_ext_path; stated here so that a directory which a
\* successful mv has carried into the destination root also counts, which
\* the claim as written implies.
C9_SourceRemains ==
    (bc_pc = "returned" /\ (copy \/ replace) /\ ~printed)
        => /\ ~bc_raised
           /\ \/ /\ IsDir(tree, current_ext_path)
                 /\ tree[current_ext_path] = tree0[current_ext_path]
              \/ /\ opRc = {0}
                 /\ Invoked("mv")
                 /\ IsDir(tree, Landing(current_ext_path, output_dir))
                 /\ tree[Landing(current_ext_path, output_dir)] = tree0[current_ext_path]

====
